---- MODULE Spec2Model ----
(***************************************************************************)
(* RxSocketClientSubject (src/src/lib/rx-socket-client.subject.ts): a      *)
(* Subject that owns a WebSocketSubject, republishes its messages, and     *)
(* reconnects on a timer when the connection status turns false.           *)
(*                                                                         *)
(* One action per callback the class registers: the open / close observers *)
(* of the socket config, the next / error callbacks of _connect, the tick  *)
(* and complete callbacks of _reconnect, and the public send / subscribe.  *)
(* All callbacks run to completion on one thread, so each is one step.     *)
(***************************************************************************)
EXTENDS Integers, Sequences, FiniteSets

\* ---------------------------------------------------------------- bounds
MaxConnects == 3   \* sockets created over a run (constructor's included)
MaxAttempts == 2   \* largest configured reconnectAttempts
MaxMsgs     == 2   \* inbound messages over a run
MaxSends    == 1   \* send() calls over a run

\* ------------------------------------------------------ program constants
DefaultAttempts == 10

Subscribers == {"s1"}                \* a subscriber of the subject itself
StatusSubs  == {"ctl", "ext"}        \* ctl: the constructor's own subscription

VARIABLES
    config,                   \* the reconnectAttempts the configuration gave
    reconnectAttempts,        \* this._reconnectAttempts
    socket,                   \* this._socket: 0 = undefined, else the socket's number
    socketSubscription,       \* this._socketSubscription: the socket it subscribes
    ws,                       \* per socket: readyState of the raw WebSocket
    subOpen,                  \* per socket: _connect's subscription is not closed
    opened,                   \* per socket: its open event has fired
    queue,                    \* per socket: WebSocketSubject's buffer of unsent data
    wire,                     \* per socket: data handed to WebSocket.send
    reconnectionObservable,   \* this._reconnectionObservable is defined
    reconnectionSubscription, \* this._reconnectionSubscription: the timer it holds
    timerLive,                \* per timer: the interval subscription is not closed
    ticks,                    \* per timer: ticks fired (takeWhile's next index)
    attempts,                 \* per timer: the _connect() calls its ticks made
    isStopped, hasError,      \* the subject's own Subject state
    observers,                \* the subject's current observers
    subscribed,               \* who has called subscribe
    log,                      \* per subscriber: the last two events delivered to it
    statusStopped,            \* _connectionStatus$ has completed
    statusObservers,          \* current subscribers of connectionStatus$
    statusSubscribed,         \* who has subscribed to connectionStatus$
    statusKey,                \* per status subscriber: distinctUntilChanged's key
    statusLog,                \* per status subscriber: the last two booleans delivered
    statusDone,               \* per status subscriber: complete delivered
    falseSawHandle,           \* this._socket when false was last delivered; -1: never
    nmsg,                     \* messages the transports have delivered
    nsend,                    \* send() calls made
    lastSend,                 \* the latest send(): data, handle, readyState, outcome
    completedAtTick,          \* 0, or the tick (1-based) that called this.complete()
    onEvent,                  \* the event name a listener gave to on()
    onMsg,                    \* an inbound message, as the deserializer leaves it
    onCalls,                  \* the arguments of the listener's callback calls
    onDone                    \* the message has gone through the listener

\* the variables of a listener registered with on()
listenerVars == <<onEvent, onMsg, onCalls, onDone>>

vars == <<listenerVars, config, reconnectAttempts, socket, socketSubscription, ws, subOpen,
          opened, queue, wire, reconnectionObservable, reconnectionSubscription,
          timerLive, ticks, attempts, isStopped, hasError, observers, subscribed,
          log, statusStopped, statusObservers, statusSubscribed, statusKey,
          statusLog, statusDone, falseSawHandle, nmsg, nsend, lastSend,
          completedAtTick>>

\* The current state as one record, so that a callback's calls compose.
State ==
    [config |-> config, attempts |-> attempts,
     falseSawHandle |-> falseSawHandle,
     reconnectAttempts |-> reconnectAttempts, socket |-> socket,
     socketSubscription |-> socketSubscription, ws |-> ws, subOpen |-> subOpen,
     opened |-> opened, queue |-> queue, wire |-> wire,
     reconnectionObservable |-> reconnectionObservable,
     reconnectionSubscription |-> reconnectionSubscription,
     timerLive |-> timerLive, ticks |-> ticks, isStopped |-> isStopped,
     hasError |-> hasError, observers |-> observers, subscribed |-> subscribed,
     log |-> log, statusStopped |-> statusStopped,
     statusObservers |-> statusObservers, statusSubscribed |-> statusSubscribed,
     statusKey |-> statusKey, statusLog |-> statusLog, statusDone |-> statusDone,
     nmsg |-> nmsg, nsend |-> nsend, lastSend |-> lastSend,
     completedAtTick |-> completedAtTick]

Becomes(s) ==
    /\ config' = s.config
    /\ attempts' = s.attempts
    /\ falseSawHandle' = s.falseSawHandle
    /\ reconnectAttempts' = s.reconnectAttempts
    /\ socket' = s.socket
    /\ socketSubscription' = s.socketSubscription
    /\ ws' = s.ws
    /\ subOpen' = s.subOpen
    /\ opened' = s.opened
    /\ queue' = s.queue
    /\ wire' = s.wire
    /\ reconnectionObservable' = s.reconnectionObservable
    /\ reconnectionSubscription' = s.reconnectionSubscription
    /\ timerLive' = s.timerLive
    /\ ticks' = s.ticks
    /\ isStopped' = s.isStopped
    /\ hasError' = s.hasError
    /\ observers' = s.observers
    /\ subscribed' = s.subscribed
    /\ log' = s.log
    /\ statusStopped' = s.statusStopped
    /\ statusObservers' = s.statusObservers
    /\ statusSubscribed' = s.statusSubscribed
    /\ statusKey' = s.statusKey
    /\ statusLog' = s.statusLog
    /\ statusDone' = s.statusDone
    /\ nmsg' = s.nmsg
    /\ nsend' = s.nsend
    /\ lastSend' = s.lastSend
    /\ completedAtTick' = s.completedAtTick
    /\ UNCHANGED listenerVars

Last(q) == q[Len(q)]

\* a subscriber's record after one more delivery: the record keeps the
\* previous delivery and the latest one
Remember(q, e) == IF Len(q) < 2 THEN Append(q, e) ELSE <<Last(q), e>>

\* --------------------------------------------- the subject (Subject<T>)
NextEv(m)  == [type |-> "next", v |-> m]
NoMsg      == [n |-> 0, from |-> 0]
ErrorEv    == [type |-> "error", v |-> NoMsg]
CompleteEv == [type |-> "complete", v |-> NoMsg]
IsTerminal(e) == e.type \in {"error", "complete"}

Deliver(s, e) ==
    [s EXCEPT !.log = [o \in Subscribers |->
        IF o \in s.observers THEN Remember(s.log[o], e) ELSE s.log[o]]]

\* this.next(m): dropped once the subject is stopped
CoreNext(s, m) == IF s.isStopped THEN s ELSE Deliver(s, NextEv(m))

\* variant: the observers kept after the error
CoreErrorKeepsObservers(s) ==
    [Deliver(s, ErrorEv) EXCEPT !.hasError = TRUE, !.isStopped = TRUE]

\* variant: the error notified as a completion
CoreErrorCompletes(s) ==
    [Deliver(s, CompleteEv) EXCEPT !.hasError = TRUE, !.isStopped = TRUE,
                                   !.observers = {}]

\* this.error(error): Subject.error notifies and forgets the observers
CoreError(s) ==
    [Deliver(s, ErrorEv) EXCEPT !.hasError = TRUE, !.isStopped = TRUE,
                                !.observers = {}]

\* this.complete(): Subject.complete notifies and forgets the observers
CoreComplete(s) ==
    [Deliver(s, CompleteEv) EXCEPT !.isStopped = TRUE, !.observers = {}]

\* ------------------------------------------------ private helper methods
\* _cleanSocket
CleanSocket(s) ==
    LET j == s.socketSubscription
        u == IF j = 0 THEN s
             ELSE [s EXCEPT !.subOpen[j] = FALSE,
                            \* the last unsubscribe closes a still open socket
                            !.ws[j] = IF s.subOpen[j] /\ @ = "open"
                                      THEN "closing" ELSE @,
                            !.queue[j] = IF s.subOpen[j] THEN <<>> ELSE @]
    IN [u EXCEPT !.socket = 0]

\* _cleanReconnection
CleanReconnection(s) ==
    LET k == s.reconnectionSubscription
        u == IF k = 0 THEN s ELSE [s EXCEPT !.timerLive[k] = FALSE]
    IN [u EXCEPT !.reconnectionObservable = FALSE]

\* _reconnect: a new interval, subscribed through takeWhile
Reconnect(s) ==
    [s EXCEPT !.timerLive = Append(@, TRUE),
              !.ticks = Append(@, 0),
              !.attempts = Append(@, 0),
              !.reconnectionSubscription = Len(s.timerLive) + 1,
              !.reconnectionObservable = TRUE]

\* _connect: a new WebSocketSubject, subscribed at once
Connect(s) ==
    [s EXCEPT !.ws = Append(@, "connecting"),
              !.subOpen = Append(@, TRUE),
              !.opened = Append(@, FALSE),
              !.queue = Append(@, <<>>),
              !.wire = Append(@, <<>>),
              !.socket = Len(s.ws) + 1,
              !.socketSubscription = Len(s.ws) + 1]

\* the error callback of _connect's subscription
SocketErrorHandler(s) ==
    IF s.socket = 0 THEN Reconnect(CleanReconnection(s)) ELSE CoreError(s)

\* the socket's output errors: only a subscription still open hears it
ObserverError(s, i) ==
    IF s.subOpen[i] THEN SocketErrorHandler([s EXCEPT !.subOpen[i] = FALSE])
    ELSE s

\* the socket's output completes: _connect passes no complete callback
ObserverComplete(s, i) == [s EXCEPT !.subOpen[i] = FALSE]

\* ------------------------------------------------ connection status
NoKey == [has |-> FALSE, key |-> FALSE]

\* variant: connectionStatus$ without distinctUntilChanged
DistinctPassesAll(k, b) == TRUE

\* distinctUntilChanged: the first value and every changed value pass
DistinctPasses(k, b) == ~k.has \/ k.key # b

\* variant: a false starts a session whether or not one is active
StatusCallbackUnguarded(s, b) == IF ~b THEN Reconnect(s) ELSE s

\* variant: a false cancels the active session and starts another
StatusCallbackRestarts(s, b) ==
    IF ~b THEN Reconnect(CleanReconnection(s)) ELSE s

\* the constructor's subscription to connectionStatus$
StatusCallback(s, b) ==
    IF ~s.reconnectionObservable /\ ~b THEN Reconnect(s) ELSE s

\* this._connectionStatus$.next(b)
StatusNext(s, b) ==
    IF s.statusStopped THEN s
    ELSE LET pass == {o \in s.statusObservers : DistinctPasses(s.statusKey[o], b)}
             u == [s EXCEPT
                     !.falseSawHandle = IF ~b /\ pass # {} THEN s.socket ELSE @,
                     !.statusKey = [o \in StatusSubs |->
                         IF o \in s.statusObservers
                         THEN [has |-> TRUE, key |-> b] ELSE s.statusKey[o]],
                     !.statusLog = [o \in StatusSubs |->
                         IF o \in pass THEN Remember(s.statusLog[o], b)
                         ELSE s.statusLog[o]]]
         IN IF "ctl" \in pass THEN StatusCallback(u, b) ELSE u

\* this._connectionStatus$.complete()
StatusComplete(s) ==
    [s EXCEPT !.statusStopped = TRUE,
              !.statusDone = [o \in StatusSubs |->
                  s.statusDone[o] \/ o \in s.statusObservers],
              !.statusObservers = {}]

\* variant: false published on open
OpenObserverInverted(s) == StatusNext(s, FALSE)

\* openObserver.next
OpenObserver(s) == StatusNext(s, TRUE)

\* variant: false published before the handle is cleared
CloseObserverPublishesFirst(s) == CleanSocket(StatusNext(s, FALSE))

\* variant: the close notification connects again at once
CloseObserverReconnects(s) == Connect(StatusNext(CleanSocket(s), FALSE))

\* variant: the close notification completes the subject as well
CloseObserverCompletes(s) == CoreComplete(StatusNext(CleanSocket(s), FALSE))

\* closeObserver.next
CloseObserver(s) == StatusNext(CleanSocket(s), FALSE)

\* ------------------------------------------------------------ the state
Sockets == 1 .. Len(ws)
Timers  == 1 .. Len(timerLive)
Alive(i) == ws[i] \in {"connecting", "open", "closing"}

\* the constructor: reconnectAttempts falls back to the default when falsy
AttemptsOf(cfg) == IF cfg # 0 THEN cfg ELSE DefaultAttempts

\* a configuration gives reconnectAttempts a number or omits it
Given(n) == [given |-> TRUE, n |-> n]
Omitted  == [given |-> FALSE, n |-> 0]

\* (<RxSocketClientConfig> urlConfigOrSource).reconnectAttempts: undefined
\* when omitted, and undefined is falsy as 0 is
ConfigValue(c) == IF c.given THEN c.n ELSE 0

ConstructorFor(c) ==
    Connect(
    [config |-> c, attempts |-> <<>>, falseSawHandle |-> -1,
     reconnectAttempts |-> AttemptsOf(ConfigValue(c)), socket |-> 0,
     socketSubscription |-> 0, ws |-> <<>>, subOpen |-> <<>>,
     opened |-> <<>>, queue |-> <<>>, wire |-> <<>>,
     reconnectionObservable |-> FALSE,
     reconnectionSubscription |-> 0,
     timerLive |-> <<>>, ticks |-> <<>>, isStopped |-> FALSE,
     hasError |-> FALSE, observers |-> {}, subscribed |-> {},
     log |-> [o \in Subscribers |-> <<>>], statusStopped |-> FALSE,
     statusObservers |-> {"ctl"}, statusSubscribed |-> {"ctl"},
     statusKey |-> [o \in StatusSubs |-> NoKey],
     statusLog |-> [o \in StatusSubs |-> <<>>],
     statusDone |-> [o \in StatusSubs |-> FALSE],
     nmsg |-> 0, nsend |-> 0,
     lastSend |-> [data |-> 0, handle |-> 0, ready |-> "none", outcome |-> "none"],
     completedAtTick |-> 0])

ConstructorState(cfg) == ConstructorFor(Given(cfg))

\* the variables hold the state s
StartsAs(s) ==
    /\ config = s.config
    /\ attempts = s.attempts
    /\ falseSawHandle = s.falseSawHandle
    /\ reconnectAttempts = s.reconnectAttempts
    /\ socket = s.socket
    /\ socketSubscription = s.socketSubscription
    /\ ws = s.ws
    /\ subOpen = s.subOpen
    /\ opened = s.opened
    /\ queue = s.queue
    /\ wire = s.wire
    /\ reconnectionObservable = s.reconnectionObservable
    /\ reconnectionSubscription = s.reconnectionSubscription
    /\ timerLive = s.timerLive
    /\ ticks = s.ticks
    /\ isStopped = s.isStopped
    /\ hasError = s.hasError
    /\ observers = s.observers
    /\ subscribed = s.subscribed
    /\ log = s.log
    /\ statusStopped = s.statusStopped
    /\ statusObservers = s.statusObservers
    /\ statusSubscribed = s.statusSubscribed
    /\ statusKey = s.statusKey
    /\ statusLog = s.statusLog
    /\ statusDone = s.statusDone
    /\ nmsg = s.nmsg
    /\ nsend = s.nsend
    /\ lastSend = s.lastSend
    /\ completedAtTick = s.completedAtTick

\* ------------------------------------------------- event listeners
\* The values a field of a message can hold, with JavaScript's kinds;
\* a number or a boolean is written as its literal.
Undefined == [kind |-> "undefined", val |-> ""]
Null      == [kind |-> "null", val |-> ""]
Str(x)    == [kind |-> "string", val |-> x]
Num(x)    == [kind |-> "number", val |-> x]
Bool(x)   == [kind |-> "boolean", val |-> x]

\* JavaScript's truthiness, which && and the filter's result are tested by
Truthy(v) ==
    ~ \/ v.kind \in {"undefined", "null"}
      \/ v.kind = "string" /\ v.val = ""
      \/ v.kind = "number" /\ v.val = "0"
      \/ v.kind = "boolean" /\ v.val = "false"

EventNames  == {"chat", "other", "error", "close"}
EventValues == {Undefined, Str("")} \cup {Str(e) : e \in EventNames}
DataValues  == {Undefined, Null, Str(""), Str("hi"), Num("0"), Num("7"),
                Bool("false"), Bool("true")}

\* the event and data fields of an object
Bodies == [event : EventValues, data : DataValues]
NoBody == [event |-> Undefined, data |-> Undefined]

\* an inbound message: its own type, event and data fields, and its
\* utf8Data field, which is an object or missing
Messages ==
    [type : {Undefined, Str("utf8"), Str("binary")}, own : Bodies,
     hasUtf8 : {TRUE}, utf8Data : Bodies]
    \cup [type : {Undefined, Str("utf8"), Str("binary")}, own : Bodies,
          hasUtf8 : {FALSE}, utf8Data : {NoBody}]

\* _message$'s map: the utf8Data of a utf8 envelope, else the message
Utf8Data(m) ==
    IF Truthy(m.type) /\ m.type = Str("utf8") /\ m.hasUtf8
    THEN m.utf8Data ELSE m.own

\* _message$'s filter
MessageFilter(b, event) ==
    /\ Truthy(b.event)
    /\ b.event # Str("error")
    /\ b.event # Str("close")
    /\ b.event = Str(event)
    /\ Truthy(b.data)

\* _message$(event): what the message becomes downstream of map and filter
Message(m, event) ==
    IF MessageFilter(Utf8Data(m), event) THEN <<Utf8Data(m)>> ELSE <<>>

\* on(event, cb): the data cb is called with for one inbound message
\* (on$ maps the same stream to the same data)
On(m, event) ==
    LET out == Message(m, event) IN [j \in 1 .. Len(out) |-> out[j].data]

\* a close listener that subscribes as o, by onClose$ or on('close', cb): its
\* complete callback calls observer.next() / cb() with no argument, its next
\* and error callbacks call nothing; the calls made so far
CloseCalls(o) == Cardinality({j \in 1 .. Len(log[o]) : log[o][j] = CompleteEv})

\* a listener that has been given no message
NoListener ==
    /\ onEvent = "chat"
    /\ onMsg = [type |-> Undefined, own |-> NoBody, hasUtf8 |-> FALSE,
                utf8Data |-> NoBody]
    /\ onCalls = <<>>
    /\ onDone = FALSE

\* the state the constructor leaves, for each configured reconnectAttempts
Init == \E cfg \in 1 .. MaxAttempts :
    StartsAs(ConstructorState(cfg)) /\ NoListener

\* ------------------------------------------------- transport callbacks
\* socket.onopen of socket i
OnOpenState(s, i) ==
    LET o == [s EXCEPT !.ws[i] = "open", !.opened[i] = TRUE] IN
    IF ~s.subOpen[i]
    THEN [o EXCEPT !.ws[i] = "closing"]   \* nobody listens: close it again
    ELSE LET n == OpenObserver(o)
         IN [n EXCEPT !.wire[i] = @ \o n.queue[i], !.queue[i] = <<>>]

OnOpen(i) ==
    /\ ws[i] = "connecting"
    /\ Becomes(OnOpenState(State, i))

\* socket.onmessage of socket i -> the next callback of _connect; a message is
\* modelled by its number n among all those delivered and its socket
OnMessageState(s, i) ==
    LET n == [s EXCEPT !.nmsg = @ + 1] IN
    IF s.subOpen[i] THEN CoreNext(n, [n |-> n.nmsg, from |-> i]) ELSE n

OnMessage(i) ==
    /\ ws[i] = "open"
    /\ nmsg < MaxMsgs
    /\ Becomes(OnMessageState(State, i))

\* socket.onerror of socket i -> the error callback of _connect
OnErrorState(s, i) ==
    ObserverError([s EXCEPT !.ws[i] = "closing", !.queue[i] = <<>>], i)

OnError(i) ==
    /\ ws[i] \in {"connecting", "open"}
    /\ Becomes(OnErrorState(State, i))

\* socket.onclose of socket i: closeObserver, then complete or error
OnCloseState(s, i, wasClean) ==
    LET c == CloseObserver([s EXCEPT !.ws[i] = "closed", !.queue[i] = <<>>]) IN
    IF ~c.subOpen[i] THEN c
    ELSE IF wasClean THEN ObserverComplete(c, i) ELSE ObserverError(c, i)

OnClose(i, wasClean) ==
    /\ Alive(i)
    /\ Becomes(OnCloseState(State, i, wasClean))

\* ------------------------------------------------------ the retry timer
\* variant: the attempt count compared with <= instead of <
TakeWhileOffByOne(s, index) == index <= s.reconnectAttempts /\ s.socket = 0

\* variant: the test of this._socket forgotten
TakeWhileIgnoresSocket(s, index) == index < s.reconnectAttempts

\* takeWhile((v, index) => index < this._reconnectAttempts && !this._socket)
TakeWhile(s, index) == index < s.reconnectAttempts /\ s.socket = 0

\* a tick that passes takeWhile: () => this._connect()
TickConnect(k, cap) ==
    /\ timerLive[k]
    /\ TakeWhile(State, ticks[k])
    /\ Len(ws) < cap
    /\ Becomes(Connect([State EXCEPT !.ticks[k] = @ + 1,
                                      !.attempts[k] = @ + 1]))

\* variant: _connectionStatus$.complete() forgotten
ReconnectCompleteCoreOnly(s, tick) ==
    LET c == CleanReconnection(s) IN
    IF c.socket = 0 THEN CoreComplete([c EXCEPT !.completedAtTick = tick]) ELSE c

\* variant: the subject completed without the test of this._socket
ReconnectCompleteAlways(s, tick) ==
    StatusComplete(CoreComplete(
        [CleanReconnection(s) EXCEPT !.completedAtTick = tick]))

\* the complete callback of _reconnect's subscription
ReconnectComplete(s, tick) ==
    LET c == CleanReconnection(s) IN
    IF c.socket = 0
    THEN StatusComplete(CoreComplete([c EXCEPT !.completedAtTick = tick]))
    ELSE c

\* a tick that fails takeWhile: the interval ends and the callback runs
TickEnd(k) ==
    /\ timerLive[k]
    /\ ~TakeWhile(State, ticks[k])
    /\ Becomes(ReconnectComplete(
           [State EXCEPT !.ticks[k] = @ + 1, !.timerLive[k] = FALSE],
           ticks[k] + 1))

\* -------------------------------------------------------- public methods
\* send(data): this._socket.next(data)
SendState(s, d) ==
    LET i == s.socket
        n == [s EXCEPT !.nsend = @ + 1] IN
    IF i = 0
    THEN \* undefined.next: a TypeError reaches the caller
         [n EXCEPT !.lastSend = [data |-> d, handle |-> 0, ready |-> "none",
                                 outcome |-> "TypeError"]]
    ELSE IF s.subOpen[i] /\ s.ws[i] = "open"
    THEN [n EXCEPT !.wire[i] = Append(@, d),
                   !.lastSend = [data |-> d, handle |-> i, ready |-> s.ws[i],
                                 outcome |-> "sent"]]
    ELSE [n EXCEPT !.queue[i] = Append(@, d),
                   !.lastSend = [data |-> d, handle |-> i, ready |-> s.ws[i],
                                 outcome |-> "queued"]]

Send ==
    /\ nsend < MaxSends
    /\ Becomes(SendState(State, nsend + 1))

\* subscribe(...) on the subject
SubscribeState(s, o) ==
    LET n == [s EXCEPT !.subscribed = @ \cup {o}] IN
    IF s.hasError THEN [n EXCEPT !.log[o] = Remember(@, ErrorEv)]
    ELSE IF s.isStopped THEN [n EXCEPT !.log[o] = Remember(@, CompleteEv)]
    ELSE [n EXCEPT !.observers = @ \cup {o}]

Subscribe(o) ==
    /\ o \notin subscribed
    /\ Becomes(SubscribeState(State, o))

\* connectionStatus$.subscribe(...) by a caller
SubscribeStatusState(s, o) ==
    LET n == [s EXCEPT !.statusSubscribed = @ \cup {o}] IN
    IF s.statusStopped THEN [n EXCEPT !.statusDone[o] = TRUE]
    ELSE [n EXCEPT !.statusObservers = @ \cup {o}]

SubscribeStatus(o) ==
    /\ o \notin statusSubscribed
    /\ Becomes(SubscribeStatusState(State, o))

\* -------------------------------------------------------- specification
Next ==
    \/ \E i \in Sockets : OnOpen(i)
    \/ \E i \in Sockets : OnMessage(i)
    \/ \E i \in Sockets : OnError(i)
    \/ \E i \in Sockets, c \in BOOLEAN : OnClose(i, c)
    \/ \E k \in Timers : TickConnect(k, MaxConnects)
    \/ \E k \in Timers : TickEnd(k)
    \/ Send
    \/ \E o \in Subscribers : Subscribe(o)
    \/ \E o \in StatusSubs : SubscribeStatus(o)

Spec == Init /\ [][Next]_vars

\* Retry exhaustion: only the constructor's socket may open, no socket reports
\* an error, and every connect attempt has closed before the next tick.
RetryNext ==
    \/ OnOpen(1)
    \/ \E i \in Sockets : OnMessage(i)
    \/ \E i \in Sockets, c \in BOOLEAN : OnClose(i, c)
    \/ \E k \in Timers : TickConnect(k, reconnectAttempts + 1)
    \/ \E k \in Timers : socket = 0 /\ TickEnd(k)
    \/ Send
    \/ \E o \in Subscribers : Subscribe(o)
    \/ \E o \in StatusSubs : SubscribeStatus(o)

\* interval() keeps ticking while subscribed, and a connect attempt that
\* cannot open is closed by the transport. A tick needs this._socket unset
\* and a close needs a socket not yet closed, so at most one of the two is
\* enabled at a time.
RetryProgress ==
    \/ \E k \in Timers : TickConnect(k, reconnectAttempts + 1)
    \/ \E k \in Timers : socket = 0 /\ TickEnd(k)
    \/ \E i \in Sockets, c \in BOOLEAN : i > 1 /\ OnClose(i, c)

RetryFairness == WF_vars(RetryProgress)

RetrySpec == Init /\ [][RetryNext]_vars /\ RetryFairness

\* the configurations: reconnectAttempts omitted, or given as 0 .. MaxAttempts
Configs == {Omitted} \cup {Given(n) : n \in 0 .. MaxAttempts}

\* the state the constructor leaves, for each configuration
ConfigInit == \E c \in Configs : StartsAs(ConstructorFor(c)) /\ NoListener

\* every configuration, against transports that never open
ConfigSpec == ConfigInit /\ [][RetryNext]_vars

\* a listener registered with on(event, cb) on a fresh client, and a message
ListenerInit ==
    /\ StartsAs(ConstructorState(1))
    /\ onEvent \in EventNames
    /\ onMsg \in Messages
    /\ onCalls = <<>>
    /\ onDone = FALSE

\* the message reaches the listener
OnInbound ==
    /\ ~onDone
    /\ onCalls' = On(onMsg, onEvent)
    /\ onDone' = TRUE
    /\ UNCHANGED <<onEvent, onMsg, config, reconnectAttempts, socket,
                   socketSubscription, ws, subOpen, opened, queue, wire,
                   reconnectionObservable, reconnectionSubscription,
                   timerLive, ticks, attempts, isStopped, hasError, observers,
                   subscribed, log, statusStopped, statusObservers,
                   statusSubscribed, statusKey, statusLog, statusDone,
                   falseSawHandle, nmsg, nsend, lastSend, completedAtTick>>

ListenerSpec == ListenerInit /\ [][OnInbound]_vars

\* ================================================================ claims

\* ---------------------------------------------------------------- C1
\* C1: once the subject has errored (a transport error arrived while the
\* handle existed), no step starts a reconnection timer and no step creates
\* a socket, whatever notification or tick the step is.
C1_NoReconnectAfterFatalError ==
    [][hasError => (Len(timerLive') = Len(timerLive) /\ Len(ws') = Len(ws))]_vars

\* ---------------------------------------------------------------- C2
\* C2: when every connect attempt of the session closes before the next tick
\* and none opens, the subject never errors, _connectionStatus$ is completed
\* exactly when the subject is, and once the first socket has closed the
\* subject eventually completes.
C2_RetryExhaustionCompletes ==
    /\ [](~hasError /\ (isStopped <=> statusStopped))
    /\ (ws[1] = "closed") ~> (isStopped /\ completedAtTick # 0)

\* the session made all its attempts, none opened, and the subject and
\* the status stream completed
C2_Witness ==
    /\ isStopped /\ ~hasError /\ statusStopped
    /\ Len(ws) = reconnectAttempts + 1
    /\ \A i \in Sockets : i > 1 => ~opened[i] /\ ws[i] = "closed"
    /\ log["s1"] # <<>> /\ Last(log["s1"]) = CompleteEv
    /\ statusDone["ctl"]

\* ---------------------------------------------------------------- C3
\* C3 as stated: this.complete() is called by the N-th tick of the session,
\* N = reconnectAttempts.
C3_CompletesAtTickN ==
    completedAtTick # 0 => completedAtTick = reconnectAttempts

\* C3 amended: this.complete() is called by the (N+1)-th tick of the session
\* and by no other: ticks 1..N (index 0..N-1) each connect, the tick with
\* index N fails takeWhile and ends the session.
C3_CompletesAtTickNPlusOne ==
    completedAtTick # 0 => completedAtTick = reconnectAttempts + 1

\* every socket failed to open, N = 2, and the subject completed, not errored
C3_Witness ==
    /\ reconnectAttempts = 2
    /\ completedAtTick = 3
    /\ isStopped /\ ~hasError
    /\ Len(ws) = 3
    /\ \A i \in Sockets : ~opened[i] /\ ws[i] = "closed"

\* ---------------------------------------------------------------- C4
\* C4: a send() that finds no handle raises nothing to its caller.
C4_SendWithoutHandleIsSilent ==
    (nsend > 0 /\ lastSend.handle = 0) => lastSend.outcome # "TypeError"

\* ---------------------------------------------------------------- C5
\* C5: the subject is never left with no handle, no reconnection timer, no
\* socket that could still notify, and no terminal event: from such a state
\* only send and subscribe can run, so neither an open nor a termination
\* can follow.
C5_NoDeadEnd ==
    ~ /\ socket = 0
      /\ ~isStopped
      /\ ~reconnectionObservable
      /\ \A k \in Timers : ~timerLive[k]
      /\ \A i \in Sockets : ~Alive(i)

\* ---------------------------------------------------------------- C6
\* C6: whenever the subject has terminated, by completion or by error,
\* _connectionStatus$ has terminated too.
C6_StatusEndsWithCore == isStopped => statusStopped

\* ---------------------------------------------------------------- C7
\* C7: no subscriber of connectionStatus$, the constructor's included, is
\* delivered the same boolean twice in a row.
C7_StatusDistinct ==
    \A o \in StatusSubs : \A j \in 1 .. Len(statusLog[o]) - 1 :
        statusLog[o][j] # statusLog[o][j + 1]

\* two sockets closed without ever opening: false was published twice in a
\* row and the constructor's subscription heard it once
C7_Witness ==
    /\ Len(ws) >= 2
    /\ ws[1] = "closed" /\ ~opened[1]
    /\ ws[2] = "closed" /\ ~opened[2]
    /\ statusLog["ctl"] = <<FALSE>>
    /\ statusLog["ext"] = <<FALSE>>

\* ---------------------------------------------------------------- C8
\* a reconnect attempt's socket is open
Reopened(i) == i > 1 /\ ws[i] = "open" /\ subOpen[i]

\* C8: while the socket of a reconnect attempt is open, the constructor's
\* status subscription has last heard false then true (as has any status
\* subscriber that heard two values), this.complete() has not been called
\* and the status stream is not completed, the subject is not stopped unless
\* it errored, and a send() made while that socket was open went to it.
C8_ReconnectRestoresChannel ==
    /\ \A i \in Sockets : Reopened(i) =>
          /\ Len(statusLog["ctl"]) >= 2
          /\ \A o \in StatusSubs : Len(statusLog[o]) >= 2 =>
                /\ statusLog[o][Len(statusLog[o]) - 1] = FALSE
                /\ Last(statusLog[o]) = TRUE
          /\ completedAtTick = 0
          /\ ~statusStopped
          /\ ~hasError => ~isStopped
    /\ \A i \in Sockets : (i > 1 /\ lastSend.handle = i /\ lastSend.ready = "open") =>
          /\ lastSend.outcome = "sent"
          /\ wire[i] # <<>> /\ Last(wire[i]) = lastSend.data

\* the first socket opened and closed, a later attempt opened, its session
\* is over, and a send() reached the new socket
C8_Witness ==
    /\ opened[1] /\ ws[1] = "closed"
    /\ ~hasError /\ ~isStopped
    /\ ~reconnectionObservable
    /\ \E i \in Sockets :
          /\ Reopened(i)
          /\ lastSend.handle = i /\ lastSend.outcome = "sent"
          /\ wire[i] = <<lastSend.data>>
    /\ statusLog["ctl"] = <<FALSE, TRUE>>

\* ---------------------------------------------------------------- C9
\* C9: nothing is delivered to a subscriber after a terminal event: in the
\* record of every subscriber only the latest delivery can be an error or a
\* completion.
C9_TerminalIsLast ==
    \A o \in Subscribers : \A j \in 1 .. Len(log[o]) - 1 :
        ~IsTerminal(log[o][j])

\* the first socket errored before opening, a later socket delivered a
\* message, the retries then ran out and called this.complete(), and the
\* error is all the subscriber was delivered
C9_Witness ==
    /\ hasError /\ completedAtTick # 0
    /\ ~opened[1] /\ nmsg > 0
    /\ log["s1"] = <<ErrorEv>>

\* ---------------------------------------------------------------- C10
\* C10: a subscriber's consecutive messages are consecutive messages of the
\* transports, in their order, and a current subscriber has missed none
\* since it heard one; true is delivered to a status subscriber only after
\* some socket has opened, false only after some socket has closed.
C10_DeliveryOrder ==
    /\ \A o \in Subscribers :
          /\ \A j \in 1 .. Len(log[o]) - 1 :
                log[o][j + 1].type = "next" =>
                    /\ log[o][j].type = "next"
                    /\ log[o][j + 1].v.n = log[o][j].v.n + 1
          /\ (o \in observers /\ log[o] # <<>>) => Last(log[o]).v.n = nmsg
    /\ \A o \in StatusSubs : statusLog[o] # <<>> =>
          IF Last(statusLog[o])
          THEN \E i \in Sockets : opened[i]
          ELSE \E i \in Sockets : ws[i] = "closed"

\* a subscriber heard the last message of the first socket and then the
\* first message of a reconnected one, and a status subscriber heard
\* false then true
C10_Witness ==
    /\ Len(log["s1"]) = 2
    /\ log["s1"][1].type = "next" /\ log["s1"][1].v.from = 1
    /\ log["s1"][2].type = "next" /\ log["s1"][2].v.from > 1
    /\ statusLog["ext"] = <<FALSE, TRUE>>

\* ---------------------------------------------------------------- C11
\* C11: for every inbound message and every event name given to on(), once
\* the message has gone through the listener the callback has been called
\* if and only if the event field of the normalized message equals the name,
\* the name is neither "error" nor "close", and the data field is present
\* (not undefined) and not empty (neither null nor the empty string); and a
\* call passes exactly that data field.
C11_CallbackIffMatching ==
    onDone =>
        LET b == Utf8Data(onMsg) IN
        /\ onCalls # <<>> <=>
               /\ b.event = Str(onEvent)
               /\ onEvent \notin {"error", "close"}
               /\ b.data \notin {Undefined, Null, Str("")}
        /\ onCalls # <<>> => onCalls = <<b.data>>

C13_OneSession ==
    /\ Cardinality({k \in Timers : timerLive[k]}) <= 1
    /\ \A k \in Timers :
           timerLive[k] => reconnectionObservable /\ reconnectionSubscription = k

\* a second session is running after the first has ended
C13_Witness ==
    /\ Len(timerLive) = 2
    /\ ~timerLive[1]
    /\ timerLive[2]

\* ---------------------------------------------------------------- C14
\* C14: a Reconnection Session makes at most as many connect attempts as the
\* configuration gave for reconnectAttempts, whatever value it gave, and at
\* most 10 when the configuration omits it.
C14_AttemptsWithinConfigured ==
    \A k \in Timers :
        attempts[k] <= (IF config.given THEN config.n ELSE DefaultAttempts)

\* ---------------------------------------------------------------- C15
\* C15: a step that completes the subject (stops it without an error) is a
\* step in which a running retry timer fires a tick and ends while
\* this._socket is undefined; no other step completes it.
C15_CompletesOnlyAtSessionEnd ==
    [][(~isStopped /\ isStopped' /\ ~hasError') =>
          /\ socket = 0
          /\ \E k \in Timers :
                 /\ timerLive[k] /\ ~timerLive'[k]
                 /\ ticks'[k] = ticks[k] + 1
                 /\ completedAtTick' = ticks'[k]]_vars

\* the subject has completed, and the first transport had opened and
\* closed before
C15_Witness ==
    /\ isStopped /\ ~hasError /\ completedAtTick # 0
    /\ opened[1] /\ ws[1] = "closed"

C17_HandleIffTransportLive ==
    /\ socket # 0 => ws[socket] \in {"connecting", "open"}
    /\ (\E i \in Sockets : ws[i] \in {"connecting", "open"}) => socket # 0

\* ---------------------------------------------------------------- C18
\* C18 (as stated): in every reachable state in which a transport is open no
\* Reconnection Session is active.
C18_NoSessionWhileOpen ==
    (\E i \in Sockets : ws[i] = "open") =>
        /\ ~reconnectionObservable
        /\ \A k \in Timers : ~timerLive[k]

\* C18 (amended): a session that is active while a transport is open makes
\* no further connect attempt: a tick of its timer in such a state ends the
\* session, creates no socket, leaves the handle alone and does not stop the
\* subject.
C18_SessionEndsAtNextTick ==
    [][\A k \in Timers :
          (/\ timerLive[k]
           /\ \E i \in Sockets : ws[i] = "open"
           /\ ticks'[k] # ticks[k]) =>
              /\ ~timerLive'[k]
              /\ ~reconnectionObservable'
              /\ attempts'[k] = attempts[k]
              /\ Len(ws') = Len(ws)
              /\ socket' = socket
              /\ isStopped' = isStopped]_vars

\* the socket the session's tick created is open and the session is still
\* active
C18_Witness ==
    /\ Len(ws) = 2
    /\ ws[2] = "open"
    /\ socket = 2
    /\ timerLive[1]
    /\ reconnectionObservable

\* ---------------------------------------------------------------- C19
\* C19: whenever false has been delivered to a status subscriber,
\* this._socket was undefined at that delivery; and a step that starts a
\* Reconnection Session ends with this._socket undefined, false having
\* been delivered with no handle.
C19_HandleClearedBeforeFalse ==
    /\ [](falseSawHandle \in {-1, 0})
    /\ [][Len(timerLive') # Len(timerLive) =>
              socket' = 0 /\ falseSawHandle' = 0]_vars

\* the first transport, once open, has closed: false has been delivered
\* and the session it started is running with no handle
C19_Witness ==
    /\ falseSawHandle = 0
    /\ opened[1] /\ ws[1] = "closed"
    /\ statusLog["ctl"] = <<TRUE, FALSE>>
    /\ Len(timerLive) = 1 /\ timerLive[1] /\ ticks[1] = 0
    /\ socket = 0

\* ---------------------------------------------------------------- C20
\* C20: in every reachable state at most one socket is not yet closed; a
\* step that creates a socket starts with this._socket undefined and is a
\* tick of a running retry timer (never a close or error notification); and
\* a defined this._socket changes only by being cleared when the transport
\* it names has closed.
C20_ConnectOnlyWithoutHandle ==
    /\ [](Cardinality({i \in Sockets : Alive(i)}) <= 1)
    /\ [][Len(ws') # Len(ws) =>
              /\ socket = 0
              /\ Len(ws') = Len(ws) + 1
              /\ socket' = Len(ws')
              /\ \E k \in Timers :
                     /\ timerLive[k] /\ timerLive'[k]
                     /\ ticks'[k] = ticks[k] + 1
                     /\ attempts'[k] = attempts[k] + 1]_vars
    /\ [][(socket # 0 /\ socket' # socket) =>
              socket' = 0 /\ ws'[socket] = "closed"]_vars

\* a tick has created the second socket after the first had closed, and
\* the handle names it
C20_Witness ==
    /\ Len(ws) = 2
    /\ ws[1] = "closed"
    /\ ws[2] = "connecting"
    /\ socket = 2
    /\ attempts = <<1>>
====
